---- MODULE Spec2Model ----
(***************************************************************************)
(* Model of music_data_utils.py: the hybrid quantizer (snap_to_grid), the  *)
(* token encoder (_generate_tokens_from_events), the augmentation driver   *)
(* (parse_midi_to_tokens) and the token decoder (tokens_to_midi).          *)
(*                                                                         *)
(* Time is counted in ticks of 1/3000 of a quarter length, the smallest    *)
(* unit in which the binary step (1/8 = 375 ticks), the ternary step       *)
(* (1/12 = 250 ticks), the noise threshold (0.04 = 120 ticks) and the      *)
(* 3-decimal rounding (0.001 = 3 ticks) are all whole numbers.  Arithmetic *)
(* on ticks is exact; the rounding noise of binary floating point is not   *)
(* modelled.                                                               *)
(***************************************************************************)
EXTENDS Integers, Sequences, FiniteSets

VARIABLES pc, duration, snapped, raw_events, transpose_semitones, enc,
          tokens, dec, source, augment, parse, ret

vars == <<pc, duration, snapped, raw_events, transpose_semitones, enc,
          tokens, dec, source, augment, parse, ret>>

(***************************************************************************)
(* Units and program constants, in ticks.                                  *)
(***************************************************************************)
grid_binary == 375
grid_ternary == 250
noise_threshold == 120
milli == 3
MAX_NOTE_DURATION == 24000
MIDI_MIN == 0
MIDI_MAX == 127
DEFAULT_MEDIAN == 60
MIDDLE_C == 60
DEFAULT_TEMPO == 120

(***************************************************************************)
(* Bounds of the model.                                                    *)
(***************************************************************************)
MaxDuration == 1600
MaxEvents == 2
MaxTokens == 3
MaxElements == 2

(***************************************************************************)
(* Generic helpers.                                                        *)
(***************************************************************************)
Abs(x) == IF x < 0 THEN -x ELSE x

Min(a, b) == IF a < b THEN a ELSE b

Max(a, b) == IF a > b THEN a ELSE b

Range(s) == {s[k] : k \in 1..Len(s)}

Last(s) == s[Len(s)]

SetMin(S) == CHOOSE x \in S : \A y \in S : x <= y

RECURSIVE sorted(_)
\* sorted(list(S)): the elements of a set of integers in ascending order
sorted(S) == IF S = {} THEN <<>> ELSE <<SetMin(S)>> \o sorted(S \ {SetMin(S)})

\* Python's round(n / d) for n >= 0, d > 0: nearest integer, halves to even
PyRound(n, d) ==
    LET q == n \div d
        r == n % d
    IN  IF 2 * r > d \/ (2 * r = d /\ q % 2 = 1) THEN q + 1 ELSE q

\* round(x, 3): x in ticks to the nearest multiple of 0.001
Round3(x) == PyRound(x, milli) * milli

(***************************************************************************)
(* snap_to_grid                                                            *)
(***************************************************************************)
\* the error comparison of snap_to_grid with the tie given to the ternary grid
BinaryWinsStrict(error_bin, error_ter) == error_bin < error_ter

BinaryWins(error_bin, error_ter) == error_bin <= error_ter

snap_to_grid(d) ==
    LET steps_bin == PyRound(d, grid_binary)
        snapped_bin == steps_bin * grid_binary
        error_bin == Abs(d - snapped_bin)
        steps_ter == PyRound(d, grid_ternary)
        snapped_ter == steps_ter * grid_ternary
        error_ter == Abs(d - snapped_ter)
    IN  IF d < noise_threshold THEN 0
        ELSE IF BinaryWins(error_bin, error_ter) THEN Round3(snapped_bin)
        ELSE Round3(snapped_ter)

(***************************************************************************)
(* Tokens.  A token is the text "ON=<..>;OFF=<..>;DUR=<..>".  The record   *)
(* keeps what the decoder's parsing can tell apart: the number of          *)
(* ';'-separated parts, the items of the ON and OFF lists (the empty       *)
(* sequence is the sentinel "_"), whether every item of a list is the text *)
(* of an integer, the DUR value in ticks and whether it is the text of a   *)
(* number.                                                                 *)
(***************************************************************************)
\* f"ON={str_on};OFF={str_off};DUR={dur:.3f}" for sorted pitch lists
FormatToken(on_set, off_set, dur) ==
    [nparts |-> 3, on |-> sorted(on_set), off |-> sorted(off_set), dur |-> dur,
     on_int |-> TRUE, off_int |-> TRUE, dur_num |-> TRUE]

(***************************************************************************)
(* _generate_tokens_from_events                                            *)
(***************************************************************************)
\* the range protection with the upper limit left out
InMidiRangeNoUpper(new_p) == MIDI_MIN <= new_p

InMidiRange(new_p) == MIDI_MIN <= new_p /\ new_p <= MIDI_MAX

\* the range filter applied to the pitches as given, the shift left out
valid_pitchesUnshifted(pitches, tr) == SelectSeq(pitches, InMidiRange)

\* valid_pitches of one event: the transposed pitches that stay in 0..127
valid_pitches(pitches, tr) ==
    SelectSeq([k \in 1..Len(pitches) |-> pitches[k] + tr], InMidiRange)

RECURSIVE StartList(_, _, _)
\* start_map[t]: the pitches appended under offset t, in event order
StartList(evs, tr, t) ==
    IF evs = <<>> THEN <<>>
    ELSE (IF Head(evs).offset = t THEN valid_pitches(Head(evs).pitches, tr) ELSE <<>>)
         \o StartList(Tail(evs), tr, t)

RECURSIVE EndListAtOffset(_, _, _)
\* end_map filled under the offset of the event instead of its end_time
EndListAtOffset(evs, tr, t) ==
    IF evs = <<>> THEN <<>>
    ELSE (IF Head(evs).offset = t THEN valid_pitches(Head(evs).pitches, tr) ELSE <<>>)
         \o EndListAtOffset(Tail(evs), tr, t)

RECURSIVE EndList(_, _, _)
\* end_map[t]: the pitches appended under end_time t, in event order
EndList(evs, tr, t) ==
    IF evs = <<>> THEN <<>>
    ELSE (IF Head(evs).offset + Head(evs).duration = t
          THEN valid_pitches(Head(evs).pitches, tr) ELSE <<>>)
         \o EndList(Tail(evs), tr, t)

\* the keys of start_map: offsets of the events that kept a valid pitch
StartKeys(evs, tr) ==
    {evs[k].offset : k \in {j \in 1..Len(evs) : valid_pitches(evs[j].pitches, tr) # <<>>}}

\* the keys of end_map
EndKeys(evs, tr) ==
    {evs[k].offset + evs[k].duration :
        k \in {j \in 1..Len(evs) : valid_pitches(evs[j].pitches, tr) # <<>>}}

start_map(evs, tr) == [t \in StartKeys(evs, tr) |-> StartList(evs, tr, t)]

end_map(evs, tr) == [t \in EndKeys(evs, tr) |-> EndList(evs, tr, t)]

\* map.get(t, [])
MapGet(map, t) == IF t \in DOMAIN map THEN map[t] ELSE <<>>

all_times(evs, tr) == sorted(StartKeys(evs, tr) \cup EndKeys(evs, tr))

\* note_state is a defaultdict: a missing pitch counts 0
CountOf(note_state, p) == IF p \in DOMAIN note_state THEN note_state[p].count ELSE 0

SetCount(note_state, p, n) ==
    [q \in DOMAIN note_state \cup {p} |-> IF q = p THEN [count |-> n] ELSE note_state[q]]

RECURSIVE ProcessEndsAny(_, _, _)
\* block A with an on/off flag in place of the counter: every end is an OFF
ProcessEndsAny(ending_notes, note_state, pending_off) ==
    IF ending_notes = <<>> THEN [note_state |-> note_state, pending_off |-> pending_off]
    ELSE LET p == Head(ending_notes)
             n == CountOf(note_state, p) - 1
         IN  ProcessEndsAny(Tail(ending_notes), SetCount(note_state, p, n),
                            pending_off \cup {p})

RECURSIVE ProcessEnds(_, _, _)
\* A. the loop over ending_notes; st = [note_state, pending_off]
ProcessEnds(ending_notes, note_state, pending_off) ==
    IF ending_notes = <<>> THEN [note_state |-> note_state, pending_off |-> pending_off]
    ELSE LET p == Head(ending_notes)
             n == CountOf(note_state, p) - 1
         IN  ProcessEnds(Tail(ending_notes), SetCount(note_state, p, n),
                         IF n = 0 THEN pending_off \cup {p} ELSE pending_off)

RECURSIVE ProcessStartsFlag(_, _, _)
\* block B with an on/off flag in place of the counter: a start sets it to 1
ProcessStartsFlag(starting_notes, note_state, pending_on) ==
    IF starting_notes = <<>> THEN [note_state |-> note_state, pending_on |-> pending_on]
    ELSE LET p == Head(starting_notes)
         IN  ProcessStartsFlag(Tail(starting_notes), SetCount(note_state, p, 1),
                               pending_on \cup {p})

RECURSIVE ProcessStarts(_, _, _)
\* B. the loop over starting_notes
ProcessStarts(starting_notes, note_state, pending_on) ==
    IF starting_notes = <<>> THEN [note_state |-> note_state, pending_on |-> pending_on]
    ELSE LET p == Head(starting_notes)
         IN  ProcessStarts(Tail(starting_notes),
                           SetCount(note_state, p, CountOf(note_state, p) + 1),
                           pending_on \cup {p})

\* step C with the removal left out
ResolveConflictsNone(pending_on, pending_off) == pending_off

\* C. pending_off without the pitches that are also in pending_on
ResolveConflicts(pending_on, pending_off) == pending_off \ pending_on

\* the ON text of the last token taken from pending_on like any other token
OnFieldKeepLast(pending_on, is_last_event) == pending_on

\* the pitches written to the ON field: none on the last time point
OnField(pending_on, is_last_event) == IF is_last_event THEN {} ELSE pending_on

\* the locals of the encoder before the first time point
EncStart(evs, tr) ==
    [start_map |-> start_map(evs, tr), end_map |-> end_map(evs, tr),
     all_times |-> all_times(evs, tr), i |-> 1,
     note_state |-> << >>, pending_on |-> {}, pending_off |-> {},
     prev_time |-> IF all_times(evs, tr) = <<>> THEN 0 ELSE all_times(evs, tr)[1],
     tokens |-> <<>>, group_on |-> <<>>, emit_at |-> <<>>]

\* the loop body with the emission test reduced to the content test: a time
\* point with pending pitches emits whatever the quantized delta is
LoopBodyEmitAlways(s) ==
    LET t == s.all_times[s.i]
        a == ProcessEnds(MapGet(s.end_map, t), s.note_state, s.pending_off)
        b == ProcessStarts(MapGet(s.start_map, t), a.note_state, s.pending_on)
        pending_on == b.pending_on
        pending_off == ResolveConflicts(pending_on, a.pending_off)
        is_last_event == (s.i = Len(s.all_times))
        next_t == IF is_last_event THEN t ELSE s.all_times[s.i + 1]
        dur == IF is_last_event THEN 0 ELSE snap_to_grid(next_t - s.prev_time)
        emit == pending_on # {} \/ pending_off # {} \/ dur > 0
    IN  [s EXCEPT
           !.i = s.i + 1,
           !.note_state = b.note_state,
           !.pending_on = IF emit THEN {} ELSE pending_on,
           !.pending_off = IF emit THEN {} ELSE pending_off,
           !.prev_time = IF emit /\ ~is_last_event THEN next_t ELSE s.prev_time,
           !.tokens = IF emit
                      THEN Append(s.tokens,
                                  FormatToken(OnField(pending_on, is_last_event),
                                              pending_off, dur))
                      ELSE s.tokens,
           !.group_on = IF emit THEN Append(s.group_on, pending_on) ELSE s.group_on,
           !.emit_at = IF emit THEN Append(s.emit_at, t) ELSE s.emit_at]

\* one iteration of "for i, t in enumerate(all_times)"; group_on records, for
\* each emitted token, the pitches that started in the time points it merges,
\* and emit_at the time point t at which it was emitted
LoopBody(s) ==
    LET t == s.all_times[s.i]
        a == ProcessEnds(MapGet(s.end_map, t), s.note_state, s.pending_off)
        b == ProcessStarts(MapGet(s.start_map, t), a.note_state, s.pending_on)
        pending_on == b.pending_on
        pending_off == ResolveConflicts(pending_on, a.pending_off)
        is_last_event == (s.i = Len(s.all_times))
        next_t == IF is_last_event THEN t ELSE s.all_times[s.i + 1]
        dur == IF is_last_event THEN 0 ELSE snap_to_grid(next_t - s.prev_time)
        emit == (dur > 0 \/ is_last_event)
                /\ (pending_on # {} \/ pending_off # {} \/ dur > 0)
    IN  [s EXCEPT
           !.i = s.i + 1,
           !.note_state = b.note_state,
           !.pending_on = IF emit THEN {} ELSE pending_on,
           !.pending_off = IF emit THEN {} ELSE pending_off,
           !.prev_time = IF emit /\ ~is_last_event THEN next_t ELSE s.prev_time,
           !.tokens = IF emit
                      THEN Append(s.tokens,
                                  FormatToken(OnField(pending_on, is_last_event),
                                              pending_off, dur))
                      ELSE s.tokens,
           !.group_on = IF emit THEN Append(s.group_on, pending_on) ELSE s.group_on,
           !.emit_at = IF emit THEN Append(s.emit_at, t) ELSE s.emit_at]

RECURSIVE RunLoop(_)
RunLoop(s) == IF s.i > Len(s.all_times) THEN s ELSE RunLoop(LoopBody(s))

\* the whole function: the returned token list
generate_tokens_from_events(evs, tr) == RunLoop(EncStart(evs, tr)).tokens

(***************************************************************************)
(* tokens_to_midi: the reconstruction of the note intervals                *)
(***************************************************************************)
\* the start of a pitch: << >> is None, <<t>> is the clock value t
StartOf(note_state, pitch) ==
    IF pitch \in DOMAIN note_state THEN note_state[pitch].start ELSE << >>

SetStart(note_state, pitch, st) ==
    [q \in DOMAIN note_state \cup {pitch} |->
        IF q = pitch THEN [start |-> st] ELSE note_state[q]]

\* the order in which the defaultdict got its keys
Touch(order, pitch) == IF pitch \in Range(order) THEN order ELSE Append(order, pitch)

Note(pitch, start, dur) == [pitch |-> pitch, start |-> start, dur |-> dur]

\* the clamp left out
ClampNone(raw_duration) == raw_duration

\* min(raw_duration, MAX_NOTE_DURATION)
Clamp(raw_duration) == Min(raw_duration, MAX_NOTE_DURATION)

\* the interval a close appends, if any: only a positive raw duration counts
Closed(pitch, start, current_time) ==
    IF start # << >> /\ current_time - start[1] > 0
    THEN <<Note(pitch, start[1], Clamp(current_time - start[1]))>>
    ELSE << >>

RECURSIVE ApplyOffKeepStart(_, _)
\* block A without the reset of the start: a closed pitch stays open
ApplyOffKeepStart(s, off_pitches) ==
    IF off_pitches = << >> THEN s
    ELSE LET pitch == Head(off_pitches)
         IN  ApplyOffKeepStart([s EXCEPT
                 !.collected_notes = @ \o Closed(pitch, StartOf(s.note_state, pitch),
                                                 s.current_time),
                 !.order = Touch(@, pitch)],
               Tail(off_pitches))

RECURSIVE ApplyOff(_, _)
\* A. OFF: close every listed pitch that has a start, then clear its start
ApplyOff(s, off_pitches) ==
    IF off_pitches = << >> THEN s
    ELSE LET pitch == Head(off_pitches)
         IN  ApplyOff([s EXCEPT
                 !.collected_notes = @ \o Closed(pitch, StartOf(s.note_state, pitch),
                                                 s.current_time),
                 !.note_state = SetStart(@, pitch, << >>),
                 !.order = Touch(@, pitch)],
               Tail(off_pitches))

RECURSIVE ApplyOnNoClose(_, _)
\* block B without the re-attack close: an open pitch is just opened again
ApplyOnNoClose(s, on_pitches) ==
    IF on_pitches = << >> THEN s
    ELSE LET pitch == Head(on_pitches)
         IN  ApplyOnNoClose([s EXCEPT
                 !.note_state = SetStart(@, pitch, <<s.current_time>>),
                 !.order = Touch(@, pitch)],
               Tail(on_pitches))

RECURSIVE ApplyOn(_, _)
\* B. ON: close a pitch that is still open (re-attack), then open it at the clock
ApplyOn(s, on_pitches) ==
    IF on_pitches = << >> THEN s
    ELSE LET pitch == Head(on_pitches)
         IN  ApplyOn([s EXCEPT
                 !.collected_notes = @ \o Closed(pitch, StartOf(s.note_state, pitch),
                                                 s.current_time),
                 !.note_state = SetStart(@, pitch, <<s.current_time>>),
                 !.order = Touch(@, pitch)],
               Tail(on_pitches))

\* the parts of a token whose parsing raises before anything is applied:
\* parts[2] missing, float() of DUR, int() of an OFF item
FailsEarly(token) ==
    token.nparts < 3 \/ ~token.dur_num \/ (token.off # << >> /\ ~token.off_int)

\* int() of an ON item raises after block A has run
FailsAtOn(token) == token.on # << >> /\ ~token.on_int

\* the loop body with block B run before block A
DecodeTokenOnFirst(s, token) ==
    IF FailsEarly(token) THEN s
    ELSE IF FailsAtOn(token) THEN ApplyOff(s, token.off)
         ELSE [ApplyOff(ApplyOn(s, token.on), token.off)
                   EXCEPT !.current_time = @ + token.dur]

\* the body of "for i, token in enumerate(tokens)", try/except included
DecodeToken(s, token) ==
    IF FailsEarly(token) THEN s
    ELSE LET a == ApplyOff(s, token.off)
         IN  IF FailsAtOn(token) THEN a
             ELSE [ApplyOn(a, token.on) EXCEPT !.current_time = @ + token.dur]

RECURSIVE Flush(_, _)
\* 2. the final clean-up over note_state.items(), in key order
Flush(s, pitches) ==
    IF pitches = << >> THEN s
    ELSE LET pitch == Head(pitches)
             start == StartOf(s.note_state, pitch)
             final_dur == IF start = << >> THEN 0 ELSE Clamp(s.current_time - start[1])
         IN  Flush([s EXCEPT
                 !.collected_notes =
                     IF start # << >> /\ final_dur > 0
                     THEN Append(@, Note(pitch, start[1], final_dur)) ELSE @],
               Tail(pitches))

RECURSIVE Insert(_, _)
\* n put into a list sorted by start, after the notes that start no later
Insert(n, notes) ==
    IF notes = << >> THEN <<n>>
    ELSE IF Head(notes).start <= n.start THEN <<Head(notes)>> \o Insert(n, Tail(notes))
    ELSE <<n>> \o notes

RECURSIVE SortByStart(_)
\* collected_notes.sort(key=lambda x: x[1]): stable
SortByStart(notes) ==
    IF notes = << >> THEN << >>
    ELSE Insert(Last(notes), SortByStart(SubSeq(notes, 1, Len(notes) - 1)))

\* the locals of the decoder before the first token
DecStart ==
    [i |-> 1, current_time |-> 0, note_state |-> << >>, order |-> << >>,
     collected_notes |-> << >>]

\* after the last token: flush the open pitches and sort
Finish(s) ==
    LET f == Flush(s, s.order)
    IN  [f EXCEPT !.collected_notes = SortByStart(@)]

RECURSIVE DecodeFrom(_, _)
DecodeFrom(s, toks) ==
    IF toks = << >> THEN Finish(s) ELSE DecodeFrom(DecodeToken(s, Head(toks)), Tail(toks))

\* the interval list handed to the score writer for a token list
decode_notes(toks) == DecodeFrom(DecStart, toks).collected_notes

(***************************************************************************)
(* parse_midi_to_tokens and its helpers                                    *)
(***************************************************************************)
IsNoteOrChord(element) == element.kind \in {"Note", "Chord"}

\* _extract_raw_events: the notes and chords of the flattened score
extract_raw_events(score) ==
    LET elements == SelectSeq(score.elements, IsNoteOrChord)
    IN  [k \in 1..Len(elements) |->
            [offset |-> elements[k].offset, duration |-> elements[k].duration,
             pitches |-> elements[k].pitches]]

RECURSIVE AllPitches(_)
\* all_pitches: the pitch lists of the events, concatenated
AllPitches(evs) ==
    IF evs = << >> THEN << >> ELSE Head(evs).pitches \o AllPitches(Tail(evs))

RECURSIVE InsertInt(_, _)
InsertInt(x, xs) ==
    IF xs = << >> THEN <<x>>
    ELSE IF Head(xs) <= x THEN <<Head(xs)>> \o InsertInt(x, Tail(xs))
    ELSE <<x>> \o xs

RECURSIVE SortInts(_)
SortInts(xs) == IF xs = << >> THEN << >> ELSE InsertInt(Head(xs), SortInts(Tail(xs)))

\* _get_pitch_median: int(statistics.median(all_pitches)), 60 when there is none
get_pitch_median(evs) ==
    LET data == SortInts(AllPitches(evs))
        n == Len(data)
    IN  IF n = 0 THEN DEFAULT_MEDIAN
        ELSE IF n % 2 = 1 THEN data[(n + 1) \div 2]
        ELSE (data[n \div 2] + data[n \div 2 + 1]) \div 2

\* the clamp with the upper limit one too high
ShiftOfWide(median_pitch) == Max(-6, Min(6, MIDDLE_C - median_pitch))

\* shift = max(-6, min(5, shift_ideal))
ShiftOf(median_pitch) == Max(-6, Min(5, MIDDLE_C - median_pitch))

\* the window started one semitone too high: range(shift - 4, shift + 8)
ShiftsOfUp(shift) == [k \in 1..12 |-> shift - 5 + k]

\* shifts = range(shift - 5, shift + 7), as a list
ShiftsOf(shift) == [k \in 1..12 |-> shift - 6 + k]

\* meta: the tempo of the first MetronomeMark, 120 when there is none
MetaOf(score) ==
    [tempo |-> IF score.tempos # << >> THEN score.tempos[1] ELSE DEFAULT_TEMPO]

\* the result of augment=False with the element left out when there are no tokens
OriginalOnlyIfTokens(evs, meta) ==
    IF generate_tokens_from_events(evs, 0) = << >> THEN << >>
    ELSE <<[tokens |-> generate_tokens_from_events(evs, 0), meta |-> meta]>>

\* the result of augment=False: [(tokens, meta)]
Original(evs, meta) == <<[tokens |-> generate_tokens_from_events(evs, 0), meta |-> meta]>>

(***************************************************************************)
(* Inputs.                                                                 *)
(***************************************************************************)
\* offsets and durations in ticks: 60 = 0.02 (below the noise threshold),
\* 375 = 1/8, 750 = 1/4, 25500 = 8.5 (longer than MAX_NOTE_DURATION)
Offsets == {0, 60, 375, 750}

Durations == {0, 60, 375, 750, 25500}

PitchLists == {<<60>>, <<127>>, <<60, 127>>}

Transposes == {0, 1}

Events == [offset : Offsets, duration : Durations, pitches : PitchLists]

\* the flattened score is iterated in offset order
InOffsetOrder(evs) == \A k \in 1..(Len(evs) - 1) : evs[k].offset <= evs[k + 1].offset

EventLists ==
    UNION {{evs \in [1..n -> Events] : InOffsetOrder(evs)} : n \in 0..MaxEvents}

\* token texts for the decoder, well-formed and malformed
TokenDurs == {0, 375, 25500}

GoodTokens ==
    [nparts : {3}, on : {<< >>, <<60>>, <<60, 62>>}, off : {<< >>, <<60>>},
     dur : TokenDurs, on_int : {TRUE}, off_int : {TRUE}, dur_num : {TRUE}]
    \cup [nparts : {3}, on : {<<60>>}, off : {<< >>}, dur : {-375},
          on_int : {TRUE}, off_int : {TRUE}, dur_num : {TRUE}]

\* "ON=60;OFF=_", "ON=60;OFF=_;DUR=abc", "ON=_;OFF=60,x;DUR=0.125",
\* "ON=x;OFF=_;DUR=0.125", "ON=60,x;OFF=60;DUR=0.125"
BadTokens ==
    {[nparts |-> 2, on |-> <<60>>, off |-> << >>, dur |-> 0,
      on_int |-> TRUE, off_int |-> TRUE, dur_num |-> TRUE],
     [nparts |-> 3, on |-> <<60>>, off |-> << >>, dur |-> 0,
      on_int |-> TRUE, off_int |-> TRUE, dur_num |-> FALSE],
     [nparts |-> 3, on |-> << >>, off |-> <<60>>, dur |-> 375,
      on_int |-> TRUE, off_int |-> FALSE, dur_num |-> TRUE],
     [nparts |-> 3, on |-> <<62>>, off |-> << >>, dur |-> 375,
      on_int |-> FALSE, off_int |-> TRUE, dur_num |-> TRUE],
     [nparts |-> 3, on |-> <<60>>, off |-> <<60>>, dur |-> 375,
      on_int |-> FALSE, off_int |-> TRUE, dur_num |-> TRUE]}

TokenLists == UNION {[1..n -> GoodTokens \cup BadTokens] : n \in 0..MaxTokens}

\* scores for parse_midi_to_tokens
NotePitches == {0, 54, 60, 67, 72, 127}

Elements ==
    [kind : {"Note"}, offset : {0, 375}, duration : {375},
     pitches : {<<p>> : p \in NotePitches}]
    \cup [kind : {"Chord"}, offset : {0}, duration : {750}, pitches : {<<60, 72>>}]
    \cup [kind : {"Rest"}, offset : {0}, duration : {375}, pitches : {<< >>}]

ElementLists ==
    UNION {{els \in [1..n -> Elements] : InOffsetOrder(els)} : n \in 0..MaxElements}

Sources ==
    [readable : BOOLEAN, elements : ElementLists, tempos : {<< >>, <<90>>, <<100, 90>>}]

(***************************************************************************)
(* Values of the variables an operation does not use.                      *)
(***************************************************************************)
NoSource == [readable |-> FALSE, elements |-> << >>, tempos |-> << >>]

NoParse ==
    [meta |-> [tempo |-> DEFAULT_TEMPO], median_pitch |-> DEFAULT_MEDIAN, shift |-> 0,
     k |-> 1, augmented_data |-> << >>]

(***************************************************************************)
(* Spec: encode an event list, then decode the tokens.                     *)
(***************************************************************************)
Init ==
    /\ pc = "encode"
    /\ raw_events \in EventLists
    /\ transpose_semitones \in Transposes
    /\ enc = EncStart(raw_events, transpose_semitones)
    /\ tokens = << >>
    /\ dec = DecStart
    /\ duration = 0
    /\ snapped = 0
    /\ source = NoSource
    /\ augment = FALSE
    /\ parse = NoParse
    /\ ret = << >>

\* one time point of the sweep
EncodeStep ==
    /\ pc = "encode"
    /\ enc.i <= Len(enc.all_times)
    /\ enc' = LoopBody(enc)
    /\ UNCHANGED <<pc, duration, snapped, raw_events, transpose_semitones, tokens, dec,
                   source, augment, parse, ret>>

\* return tokens (the empty list when there is no time point); the tokens go
\* to tokens_to_midi
EncodeReturn ==
    /\ pc = "encode"
    /\ enc.i > Len(enc.all_times)
    /\ tokens' = enc.tokens
    /\ dec' = DecStart
    /\ pc' = "decode"
    /\ UNCHANGED <<duration, snapped, raw_events, transpose_semitones, enc, source,
                   augment, parse, ret>>

\* one token of the decoder's loop
DecodeStep ==
    /\ pc = "decode"
    /\ dec.i <= Len(tokens)
    /\ dec' = [DecodeToken(dec, tokens[dec.i]) EXCEPT !.i = dec.i + 1]
    /\ UNCHANGED <<pc, duration, snapped, raw_events, transpose_semitones, enc, tokens,
                   source, augment, parse, ret>>

\* after the loop: flush and sort
DecodeFinish ==
    /\ pc = "decode"
    /\ dec.i > Len(tokens)
    /\ dec' = Finish(dec)
    /\ pc' = "done"
    /\ UNCHANGED <<duration, snapped, raw_events, transpose_semitones, enc, tokens,
                   source, augment, parse, ret>>

Next == EncodeStep \/ EncodeReturn \/ DecodeStep \/ DecodeFinish

Spec == Init /\ [][Next]_vars

(***************************************************************************)
(* SpecDecode: decode any token list.                                      *)
(***************************************************************************)
InitDecode ==
    /\ pc = "decode"
    /\ tokens \in TokenLists
    /\ dec = DecStart
    /\ raw_events = << >>
    /\ transpose_semitones = 0
    /\ enc = EncStart(<< >>, 0)
    /\ duration = 0
    /\ snapped = 0
    /\ source = NoSource
    /\ augment = FALSE
    /\ parse = NoParse
    /\ ret = << >>

NextDecode == DecodeStep \/ DecodeFinish

SpecDecode == InitDecode /\ [][NextDecode]_vars

(***************************************************************************)
(* SpecSnap: quantize one duration.                                        *)
(***************************************************************************)
InitSnap ==
    /\ pc = "snap"
    /\ duration \in 0..MaxDuration
    /\ snapped = 0
    /\ raw_events = << >>
    /\ transpose_semitones = 0
    /\ enc = EncStart(<< >>, 0)
    /\ tokens = << >>
    /\ dec = DecStart
    /\ source = NoSource
    /\ augment = FALSE
    /\ parse = NoParse
    /\ ret = << >>

Snap ==
    /\ pc = "snap"
    /\ snapped' = snap_to_grid(duration)
    /\ pc' = "done"
    /\ UNCHANGED <<duration, raw_events, transpose_semitones, enc, tokens, dec, source,
                   augment, parse, ret>>

NextSnap == Snap

SpecSnap == InitSnap /\ [][NextSnap]_vars

(***************************************************************************)
(* SpecParse: parse_midi_to_tokens on a source.                            *)
(***************************************************************************)
InitParse ==
    /\ pc = "read"
    /\ source \in Sources
    /\ augment \in BOOLEAN
    /\ parse = NoParse
    /\ ret = << >>
    /\ raw_events = << >>
    /\ transpose_semitones = 0
    /\ enc = EncStart(<< >>, 0)
    /\ tokens = << >>
    /\ dec = DecStart
    /\ duration = 0
    /\ snapped = 0

\* 1. the read raises: report and return []
ReadFail ==
    /\ pc = "read"
    /\ ~source.readable
    /\ ret' = << >>
    /\ pc' = "done"
    /\ UNCHANGED <<duration, snapped, raw_events, transpose_semitones, enc, tokens, dec,
                   source, augment, parse>>

\* 1.-2. the read succeeds: raw events and metadata
ReadOk ==
    /\ pc = "read"
    /\ source.readable
    /\ raw_events' = extract_raw_events(source)
    /\ parse' = [parse EXCEPT !.meta = MetaOf(source)]
    /\ pc' = "generate"
    /\ UNCHANGED <<duration, snapped, transpose_semitones, enc, tokens, dec, source,
                   augment, ret>>

\* 3. not augment: one element, the original key
GenerateOriginal ==
    /\ pc = "generate"
    /\ ~augment
    /\ ret' = Original(raw_events, parse.meta)
    /\ pc' = "done"
    /\ UNCHANGED <<duration, snapped, raw_events, transpose_semitones, enc, tokens, dec,
                   source, augment, parse>>

\* 3. augment: median, shift and the window
AugmentStart ==
    /\ pc = "generate"
    /\ augment
    /\ parse' = [parse EXCEPT !.median_pitch = get_pitch_median(raw_events),
                              !.shift = ShiftOf(get_pitch_median(raw_events)),
                              !.k = 1,
                              !.augmented_data = << >>]
    /\ pc' = "augment"
    /\ UNCHANGED <<duration, snapped, raw_events, transpose_semitones, enc, tokens, dec,
                   source, augment, ret>>

\* one semitone of "for semitone in shifts"
AugmentStep ==
    /\ pc = "augment"
    /\ parse.k <= Len(ShiftsOf(parse.shift))
    /\ LET semitone == ShiftsOf(parse.shift)[parse.k]
           toks == generate_tokens_from_events(raw_events, semitone)
       IN  /\ transpose_semitones' = semitone
           /\ parse' = [parse EXCEPT
                  !.k = @ + 1,
                  !.augmented_data =
                      IF toks # << >>
                      THEN Append(@, [tokens |-> toks, meta |-> parse.meta])
                      ELSE @]
    /\ UNCHANGED <<pc, duration, snapped, raw_events, enc, tokens, dec, source, augment,
                   ret>>

\* return augmented_data
AugmentReturn ==
    /\ pc = "augment"
    /\ parse.k > Len(ShiftsOf(parse.shift))
    /\ ret' = parse.augmented_data
    /\ pc' = "done"
    /\ UNCHANGED <<duration, snapped, raw_events, transpose_semitones, enc, tokens, dec,
                   source, augment, parse>>

NextParse ==
    ReadFail \/ ReadOk \/ GenerateOriginal \/ AugmentStart \/ AugmentStep \/ AugmentReturn

SpecParse == InitParse /\ [][NextParse]_vars

(***************************************************************************)
(* Properties of the encoder and of the encode-decode round trip (Spec).   *)
(***************************************************************************)
\* the pitches of an event that survive the transposition
ValidSet(e) == Range(valid_pitches(e.pitches, transpose_semitones))

\* C1: no token of the encoder has a pitch in both ON and OFF, and a pitch
\* that started in the time points a token merges (so also one that ended and
\* started again there) is not in the OFF field of that token.
C1_OnOffDisjoint ==
    \A k \in 1..Len(enc.tokens) :
        /\ Range(enc.tokens[k].on) \cap Range(enc.tokens[k].off) = {}
        /\ enc.group_on[k] \cap Range(enc.tokens[k].off) = {}

\* an event of a pitch ends where another event of the pitch starts, and the
\* encoder has emitted the token of that instant with the pitch in ON
C1_Witness ==
    /\ pc = "decode"
    /\ \E a, b \in 1..Len(raw_events) :
          /\ raw_events[a].duration > 0
          /\ raw_events[a].offset + raw_events[a].duration = raw_events[b].offset
          /\ \E q \in ValidSet(raw_events[a]) \cap ValidSet(raw_events[b]) :
                \E k \in 2..Len(enc.tokens) : q \in Range(enc.tokens[k].on)

\* two events share a pitch and sound at the same time
SamePitchOverlap(evs) ==
    \E a, b \in 1..Len(evs) :
        /\ a # b
        /\ Range(evs[a].pitches) \cap Range(evs[b].pitches) # {}
        /\ evs[a].offset < evs[b].offset + evs[b].duration
        /\ evs[b].offset < evs[a].offset + evs[a].duration

\* the pitch instances of an event list: <<event index, position in its list>>
Instances(evs) == {<<k, j>> \in (1..Len(evs)) \X (1..2) : j <= Len(evs[k].pitches)}

MinOffset(evs) == SetMin({evs[k].offset : k \in 1..Len(evs)})

\* every offset and duration is a multiple of 1/8, every duration in (0, 8.0]
OnBinaryGrid(evs) ==
    \A k \in 1..Len(evs) :
        /\ evs[k].offset % grid_binary = 0
        /\ evs[k].duration % grid_binary = 0
        /\ evs[k].duration > 0
        /\ evs[k].duration <= MAX_NOTE_DURATION

\* C2 as stated: without same-pitch overlap, decoding the encoding (transpose 0)
\* gives exactly one interval (pitch, quantized offset, quantized duration) per
\* pitch instance, and no decoded duration exceeds 8.0.
C2_RoundTripAsStated ==
    (pc = "done" /\ transpose_semitones = 0 /\ ~SamePitchOverlap(raw_events)) =>
        /\ Range(dec.collected_notes) =
              {Note(raw_events[x[1]].pitches[x[2]],
                    snap_to_grid(raw_events[x[1]].offset),
                    snap_to_grid(raw_events[x[1]].duration)) : x \in Instances(raw_events)}
        /\ Len(dec.collected_notes) = Cardinality(Instances(raw_events))
        /\ \A k \in 1..Len(dec.collected_notes) :
              dec.collected_notes[k].dur <= MAX_NOTE_DURATION

\* C2 amended: without same-pitch overlap, with every offset and duration a
\* multiple of 1/8 and every duration in (0, 8.0], decoding the encoding
\* (transpose 0) gives exactly one interval (pitch, offset - earliest offset,
\* duration) per pitch instance, and no decoded duration exceeds 8.0.
C2_RoundTripOnGrid ==
    (pc = "done" /\ transpose_semitones = 0 /\ ~SamePitchOverlap(raw_events)
       /\ OnBinaryGrid(raw_events)) =>
        /\ Range(dec.collected_notes) =
              {Note(raw_events[x[1]].pitches[x[2]],
                    raw_events[x[1]].offset - MinOffset(raw_events),
                    raw_events[x[1]].duration) : x \in Instances(raw_events)}
        /\ Len(dec.collected_notes) = Cardinality(Instances(raw_events))
        /\ \A k \in 1..Len(dec.collected_notes) :
              dec.collected_notes[k].dur <= MAX_NOTE_DURATION

\* a round trip of two on-grid events that do not start at offset 0
C2_Witness ==
    /\ pc = "done"
    /\ transpose_semitones = 0
    /\ ~SamePitchOverlap(raw_events)
    /\ OnBinaryGrid(raw_events)
    /\ Len(raw_events) = 2
    /\ MinOffset(raw_events) > 0
    /\ Len(dec.collected_notes) >= 2

\* a positive duration on the binary or on the ternary grid
OnGrid(d) == d > 0 /\ (d % grid_binary = 0 \/ d % grid_ternary = 0)

\* the event list is two events, the first ending exactly where the second
\* starts, both with positive on-grid durations
ReattackPair ==
    /\ Len(raw_events) = 2
    /\ raw_events[1].offset + raw_events[1].duration = raw_events[2].offset
    /\ OnGrid(raw_events[1].duration)
    /\ OnGrid(raw_events[2].duration)

SharedPitches == ValidSet(raw_events[1]) \cap ValidSet(raw_events[2])

NotesOf(q) == {n \in Range(dec.collected_notes) : n.pitch = q}

\* the token part of the re-attack rule for pitch q: three tokens, q in ON of
\* the first two, q in OFF of the last one only
ReattackTokens(q) ==
    /\ Len(tokens) = 3
    /\ {k \in 1..Len(tokens) : q \in Range(tokens[k].on)} = {1, 2}
    /\ {k \in 1..Len(tokens) : q \in Range(tokens[k].off)} = {3}

\* C3 as stated: the shared instant is a single ON without OFF, the only OFF of
\* the pitch is in the later token at the second event's end, and the decoder
\* gives the intervals [start1, start2) and [start2, end2).
C3_ReattackAsStated ==
    (pc = "done" /\ ReattackPair) =>
        \A q \in SharedPitches :
            /\ ReattackTokens(q)
            /\ NotesOf(q) =
                  {Note(q, raw_events[1].offset, raw_events[1].duration),
                   Note(q, raw_events[2].offset, raw_events[2].duration)}

\* C3 amended: the shared instant is a single ON without OFF, the only OFF of
\* the pitch is in the later token at the second event's end, and the decoder
\* gives two intervals timed from the first event's start, each cut to 8.0:
\* (p, 0, min(q1, 8.0)) and (p, q1, min(q2, 8.0)) for the quantized durations
\* q1 and q2.
C3_Reattack ==
    (pc = "done" /\ ReattackPair) =>
        \A q \in SharedPitches :
            /\ ReattackTokens(q)
            /\ NotesOf(q) =
                  {Note(q, 0, Min(snap_to_grid(raw_events[1].duration), MAX_NOTE_DURATION)),
                   Note(q, snap_to_grid(raw_events[1].duration),
                        Min(snap_to_grid(raw_events[2].duration), MAX_NOTE_DURATION))}

\* a re-attacked pitch has been encoded and decoded
C3_Witness ==
    /\ pc = "done"
    /\ ReattackPair
    /\ SharedPitches # {}
    /\ \E q \in SharedPitches : Cardinality(NotesOf(q)) = 2

\* C4: a non-empty token list returned by the encoder ends with a token whose
\* ON is the empty sentinel and whose DUR is 0.
C4_FinalToken ==
    (pc # "encode" /\ tokens # << >>) =>
        /\ Last(tokens).on = << >>
        /\ Last(tokens).dur = 0

\* the encoder returned a list whose last time point had a pitch starting
C4_Witness ==
    /\ pc = "decode"
    /\ tokens # << >>
    /\ Last(enc.group_on) # {}

(***************************************************************************)
(* Properties of the decoder on any token list (SpecDecode).               *)
(***************************************************************************)
\* wrong field count, non-numeric DUR, or a non-integer pitch in ON or OFF
Malformed(token) ==
    \/ token.nparts # 3
    \/ ~token.dur_num
    \/ (token.on # << >> /\ ~token.on_int)
    \/ (token.off # << >> /\ ~token.off_int)

WellFormed(token) == ~Malformed(token)

\* C5: malformed tokens are skipped: the decoded result of a token list is the
\* result of decoding the list with its malformed tokens removed.
C5_MalformedSkipped ==
    pc = "done" => dec.collected_notes = decode_notes(SelectSeq(tokens, WellFormed))

\* C6: every interval the decoder has collected has a duration d with
\* 0 < d <= MAX_NOTE_DURATION.
C6_DurationBounds ==
    \A k \in 1..Len(dec.collected_notes) :
        /\ dec.collected_notes[k].dur > 0
        /\ dec.collected_notes[k].dur <= MAX_NOTE_DURATION

\* an interval longer than 8.0 has been closed and cut to 8.0
C6_Witness ==
    /\ pc = "done"
    /\ \E k \in 1..Len(dec.collected_notes) :
          /\ dec.collected_notes[k].dur = MAX_NOTE_DURATION
          /\ dec.current_time - dec.collected_notes[k].start > MAX_NOTE_DURATION

(***************************************************************************)
(* Properties of parse_midi_to_tokens (SpecParse).                         *)
(***************************************************************************)
\* C7: with augment, shift = clamp(60 - median_pitch, -6, 5), the encoder is
\* run for the 12 transpositions shift-5 .. shift+6 in ascending order, and the
\* result is the list of the non-empty encodings in that order, at most 12.
C7_AugmentWindow ==
    (pc = "done" /\ source.readable /\ augment) =>
        LET ideal == 60 - parse.median_pitch
            shift == IF ideal < -6 THEN -6 ELSE IF ideal > 5 THEN 5 ELSE ideal
            window == [k \in 1..12 |-> shift - 5 + (k - 1)]
            kept == SelectSeq(window,
                              LAMBDA x : generate_tokens_from_events(raw_events, x) # << >>)
        IN  /\ parse.shift = shift
            /\ transpose_semitones = shift + 6
            /\ Len(ret) <= 12
            /\ Len(ret) = Len(kept)
            /\ \A k \in 1..Len(ret) :
                  ret[k] = [tokens |-> generate_tokens_from_events(raw_events, kept[k]),
                            meta |-> parse.meta]
            /\ (parse.median_pitch = 60 => window[1] = -5 /\ window[12] = 6)
            /\ (parse.median_pitch = 72 => window[1] = -11 /\ window[12] = 0)

\* a piece of median pitch 72 has been augmented into 12 variations
C7_Witness ==
    /\ pc = "done"
    /\ source.readable
    /\ augment
    /\ parse.median_pitch = 72
    /\ Len(ret) = 12

\* C8: with augment and at least one pitch, transposition 0 is in the window
\* and its encoding, the one augment=False returns, is in the returned list.
C8_OriginalKeyIncluded ==
    (pc = "done" /\ source.readable /\ augment /\ AllPitches(raw_events) # << >>) =>
        /\ 0 \in Range(ShiftsOf(parse.shift))
        /\ \E k \in 1..Len(ret) : ret[k] = Original(raw_events, parse.meta)[1]

\* the original key is the last member of the window of a high piece
C8_Witness ==
    /\ pc = "done"
    /\ source.readable
    /\ augment
    /\ AllPitches(raw_events) # << >>
    /\ parse.shift = -6
    /\ Len(ret) = 12
    /\ ret[12] = Original(raw_events, parse.meta)[1]

\* C10 as stated: without augment, a source that was read gives exactly one
\* element, ([], {tempo: 120}) for a score without note events; the empty
\* list is returned only when the read failed.
C10_SingleElementAsStated ==
    (pc = "done" /\ ~augment) =>
        /\ source.readable => Len(ret) = 1
        /\ (source.readable /\ extract_raw_events(source) = << >>) =>
              ret = <<[tokens |-> << >>, meta |-> [tempo |-> 120]]>>
        /\ ret = << >> <=> ~source.readable

\* C10 amended: without augment, a source that was read gives exactly one
\* element, ([], {tempo: T}) for a score without note events, T being the
\* score's first tempo mark and 120 when it has none; the empty list is
\* returned only when the read failed.
C10_SingleElement ==
    (pc = "done" /\ ~augment) =>
        /\ source.readable => Len(ret) = 1
        /\ (source.readable /\ extract_raw_events(source) = << >>) =>
              ret = <<[tokens |-> << >>,
                       meta |-> [tempo |-> IF source.tempos = << >> THEN 120
                                           ELSE source.tempos[1]]]>>
        /\ ret = << >> <=> ~source.readable

\* a score of rests with a tempo mark has been parsed without augment
C10_Witness ==
    /\ pc = "done"
    /\ ~augment
    /\ source.readable
    /\ source.elements # << >>
    /\ extract_raw_events(source) = << >>
    /\ source.tempos # << >>
    /\ Len(ret) = 1

(***************************************************************************)
(* Properties of snap_to_grid (SpecSnap).                                  *)
(***************************************************************************)
BinaryMultiples == {k * grid_binary : k \in 0..(MaxDuration \div grid_binary + 1)}

TernaryMultiples == {k * grid_ternary : k \in 0..(MaxDuration \div grid_ternary + 1)}

\* x is a member of S nearest to d
Nearest(x, S, d) == x \in S /\ \A y \in S : Abs(d - x) <= Abs(d - y)

\* C9: snap_to_grid(d) is >= 0 and is 0 or a multiple of 1/8 or of 1/12 to 3
\* decimals; it is 0 below 0.04, and otherwise the nearest multiple of 1/8 or
\* the nearest multiple of 1/12, whichever is closer to d, the multiple of 1/8
\* on a tie.
C9_SnapToGrid ==
    pc = "done" =>
        /\ snapped >= 0
        /\ snapped \in {Round3(x) : x \in BinaryMultiples \cup TernaryMultiples}
        /\ duration < noise_threshold => snapped = 0
        /\ duration >= noise_threshold =>
              \A b \in BinaryMultiples, t \in TernaryMultiples :
                  (Nearest(b, BinaryMultiples, duration)
                     /\ Nearest(t, TernaryMultiples, duration)) =>
                      snapped = IF Abs(duration - b) <= Abs(duration - t)
                                THEN Round3(b) ELSE Round3(t)

\* a duration as far from its nearest 1/8 multiple as from a different nearest
\* 1/12 multiple has been snapped to the 1/8 multiple
C9_Witness ==
    /\ pc = "done"
    /\ duration >= noise_threshold
    /\ \E b \in BinaryMultiples, t \in TernaryMultiples :
          /\ Nearest(b, BinaryMultiples, duration)
          /\ Nearest(t, TernaryMultiples, duration)
          /\ b # t
          /\ Abs(duration - b) = Abs(duration - t)
          /\ snapped = b

(***************************************************************************)
(* Properties of the sweep of the encoder (Spec).                          *)
(***************************************************************************)
\* the pitch of instance x of the event list after the transposition
PitchOf(x) == raw_events[x[1]].pitches[x[2]] + transpose_semitones

\* the instances that survive the range filter
ValidInstances == {x \in Instances(raw_events) : InMidiRange(PitchOf(x))}

\* the number of valid instances of pitch q that sound at time t
Sounding(q, t) ==
    Cardinality({x \in ValidInstances :
        /\ PitchOf(x) = q
        /\ raw_events[x[1]].offset <= t
        /\ t < raw_events[x[1]].offset + raw_events[x[1]].duration})

\* the time point the sweep has just finished (defined once enc.i > 1)
CurrentTime == enc.all_times[enc.i - 1]

\* the emission point before token k: the first time point for token 1
GroupStart(k) == IF k = 1 THEN enc.all_times[1] ELSE enc.emit_at[k - 1]

\* some valid instance of q ends in the time points token k merges
EndsInGroup(q, k) ==
    \E x \in ValidInstances :
        /\ PitchOf(x) = q
        /\ raw_events[x[1]].offset + raw_events[x[1]].duration <= enc.emit_at[k]
        /\ \/ raw_events[x[1]].offset + raw_events[x[1]].duration > GroupStart(k)
           \/ k = 1

\* C11: a pitch waits in pending_off only with its counter at zero, and a pitch
\* in the OFF field of a token has an instance that ended in the time points the
\* token merges and no instance still sounding at the token's time point.
C11_DeferredOff ==
    /\ \A q \in enc.pending_off :
          /\ CountOf(enc.note_state, q) = 0
          /\ Sounding(q, CurrentTime) = 0
    /\ \A k \in 1..Len(enc.tokens) :
          \A q \in Range(enc.tokens[k].off) :
              /\ Sounding(q, enc.emit_at[k]) = 0
              /\ EndsInGroup(q, k)

\* two instances of a pitch overlapped and the pitch got its OFF after one of
\* them had ended earlier without an OFF
C11_Witness ==
    /\ pc = "decode"
    /\ \E x, y \in ValidInstances :
          /\ x # y
          /\ PitchOf(x) = PitchOf(y)
          /\ raw_events[x[1]].offset < raw_events[y[1]].offset
          /\ raw_events[y[1]].offset < raw_events[x[1]].offset + raw_events[x[1]].duration
          /\ raw_events[x[1]].offset + raw_events[x[1]].duration
                < raw_events[y[1]].offset + raw_events[y[1]].duration
          /\ {k \in 1..Len(enc.tokens) : PitchOf(x) \in Range(enc.tokens[k].off)}
                = {Len(enc.tokens)}
          /\ Len(enc.tokens) >= 4

\* the valid pitches of the instances that start, and that end, at time t
StartingAt(t) == {PitchOf(x) : x \in {y \in ValidInstances : raw_events[y[1]].offset = t}}

EndingAt(t) ==
    {PitchOf(x) : x \in {y \in ValidInstances :
                            raw_events[y[1]].offset + raw_events[y[1]].duration = t}}

\* C12: in every step of the sweep at most one token is emitted; a token is
\* emitted only with a positive quantized delta from the reference time to the
\* next time point, or at the last time point, so every token but the last has
\* DUR > 0; an emission empties both pending sets and moves the reference time
\* to the next time point (not on the last one); without an emission the
\* reference time stays, pending_on keeps its pitches and gains those starting
\* here, and pending_off keeps its pitches and gains only pitches ending here,
\* less those pending_on holds.
C12_EmissionRule ==
    [][(pc = "encode" /\ enc' # enc) =>
        LET t == enc.all_times[enc.i]
            is_last_event == (enc.i = Len(enc.all_times))
            next_t == IF is_last_event THEN t ELSE enc.all_times[enc.i + 1]
            emitted == Len(enc'.tokens) = Len(enc.tokens) + 1
        IN  /\ emitted \/ enc'.tokens = enc.tokens
            /\ emitted => /\ SubSeq(enc'.tokens, 1, Len(enc.tokens)) = enc.tokens
                          /\ Last(enc'.tokens).dur > 0 \/ is_last_event
                          /\ ~is_last_event =>
                                /\ Last(enc'.tokens).dur = snap_to_grid(next_t - enc.prev_time)
                                /\ enc'.prev_time = next_t
                          /\ is_last_event => /\ Last(enc'.tokens).dur = 0
                                              /\ enc'.prev_time = enc.prev_time
                          /\ enc'.pending_on = {}
                          /\ enc'.pending_off = {}
            /\ ~emitted => /\ ~is_last_event => snap_to_grid(next_t - enc.prev_time) = 0
                           /\ is_last_event => enc'.pending_on = {} /\ enc'.pending_off = {}
                           /\ enc'.prev_time = enc.prev_time
                           /\ enc'.pending_on = enc.pending_on \cup StartingAt(t)
                           /\ enc.pending_off \ enc'.pending_on \subseteq enc'.pending_off
                           /\ enc'.pending_off \subseteq
                                 (enc.pending_off \cup EndingAt(t)) \ enc'.pending_on
            /\ \A k \in 1..(Len(enc'.tokens) - 1) : enc'.tokens[k].dur > 0
    ]_vars

\* after a first token a time point emitted nothing and carries an ON and an OFF
C12_Witness ==
    /\ pc = "encode"
    /\ enc.tokens # << >>
    /\ enc.i <= Len(enc.all_times)
    /\ enc.pending_on # {}
    /\ enc.pending_off # {}
    /\ enc.prev_time = enc.all_times[enc.i - 1]

(***************************************************************************)
(* Properties of one decoder step (SpecDecode).                            *)
(***************************************************************************)
\* the intervals a well-formed token closes at clock c: one for each pitch of
\* its OFF or ON field that is open with a start before c
ClosedBy(token, note_state, c) ==
    {Note(q, StartOf(note_state, q)[1], Min(c - StartOf(note_state, q)[1], MAX_NOTE_DURATION)) :
        q \in {r \in Range(token.off) \cup Range(token.on) :
                  /\ StartOf(note_state, r) # << >>
                  /\ c - StartOf(note_state, r)[1] > 0}}

\* C13: a step of the decoder on a well-formed token appends exactly one
\* interval for each pitch of its OFF or ON field that is open with a start
\* before the clock, from that start to the clock and cut at 8.0, and none for
\* a pitch that is not open; afterwards every pitch of the ON field is open at
\* the clock the token was read at (also when the token lists it in OFF), the
\* other pitches of the OFF field are closed, the remaining pitches keep their
\* start, and the clock has advanced by DUR.
C13_DecoderReattack ==
    [][(pc = "decode" /\ dec.i <= Len(tokens) /\ WellFormed(tokens[dec.i])) =>
        LET token == tokens[dec.i]
            c == dec.current_time
            closed == ClosedBy(token, dec.note_state, c)
            n == Len(dec.collected_notes)
        IN  /\ Len(dec'.collected_notes) = n + Cardinality(closed)
            /\ SubSeq(dec'.collected_notes, 1, n) = dec.collected_notes
            /\ {dec'.collected_notes[k] : k \in (n + 1)..Len(dec'.collected_notes)} = closed
            /\ \A q \in Range(token.on) : StartOf(dec'.note_state, q) = <<c>>
            /\ \A q \in Range(token.off) \ Range(token.on) :
                  StartOf(dec'.note_state, q) = << >>
            /\ \A q \in (DOMAIN dec.note_state \cup DOMAIN dec'.note_state)
                          \ (Range(token.on) \cup Range(token.off)) :
                  StartOf(dec'.note_state, q) = StartOf(dec.note_state, q)
            /\ dec'.current_time = c + token.dur
    ]_vars

\* a token with ON=60 and no OFF was read while 60 was open since an earlier
\* clock: the old interval ends where the new start is
C13_Witness ==
    /\ pc = "decode"
    /\ dec.i > 1
    /\ WellFormed(tokens[dec.i - 1])
    /\ tokens[dec.i - 1].on = <<60>>
    /\ tokens[dec.i - 1].off = << >>
    /\ StartOf(dec.note_state, 60) = <<dec.current_time - tokens[dec.i - 1].dur>>
    /\ dec.collected_notes # << >>
    /\ Last(dec.collected_notes).pitch = 60
    /\ <<Last(dec.collected_notes).start + Last(dec.collected_notes).dur>>
          = StartOf(dec.note_state, 60)

(***************************************************************************)
(* Properties of the token list the encoder returns (Spec).                *)
(***************************************************************************)
\* the tokens whose ON field lists pitch q
OnTokens(q) == {k \in 1..Len(tokens) : q \in Range(tokens[k].on)}

\* C14: no stuck notes: in the token list the encoder returns, every pitch of
\* some ON field is in the OFF field of a token strictly after the last token
\* that lists it in ON, and when the decoder has read all the tokens no pitch
\* is left open for the final flush.
C14_NoStuckNotes ==
    pc = "decode" =>
        /\ \A q \in MIDI_MIN..MIDI_MAX :
              \A k \in OnTokens(q) :
                  (\A j \in OnTokens(q) : j <= k) =>
                      \E j \in (k + 1)..Len(tokens) : q \in Range(tokens[j].off)
        /\ dec.i > Len(tokens) =>
              \A q \in DOMAIN dec.note_state : StartOf(dec.note_state, q) = << >>

(***************************************************************************)
(* Properties of the decoded intervals (SpecDecode).                       *)
(***************************************************************************)
RECURSIVE ClockAfter(_)
\* the clock after the first j tokens of a list of well-formed tokens
ClockAfter(j) == IF j = 0 THEN 0 ELSE ClockAfter(j - 1) + tokens[j].dur

\* every token is well-formed and has DUR >= 0
ForwardTokens == \A k \in 1..Len(tokens) : WellFormed(tokens[k]) /\ tokens[k].dur >= 0

\* C15: for well-formed tokens with DUR >= 0, any two decoded intervals of the
\* same pitch are disjoint (one starts at or after the end of the other), and
\* the start of every interval is the clock at which some token was read,
\* between 0 and the final clock.
C15_NonOverlap ==
    ForwardTokens =>
        /\ \A a, b \in 1..Len(dec.collected_notes) :
              (a # b /\ dec.collected_notes[a].pitch = dec.collected_notes[b].pitch) =>
                  \/ dec.collected_notes[a].start + dec.collected_notes[a].dur
                        <= dec.collected_notes[b].start
                  \/ dec.collected_notes[b].start + dec.collected_notes[b].dur
                        <= dec.collected_notes[a].start
        /\ \A a \in 1..Len(dec.collected_notes) :
              /\ \E j \in 0..(Len(tokens) - 1) :
                    dec.collected_notes[a].start = ClockAfter(j)
              /\ 0 <= dec.collected_notes[a].start
              /\ dec.collected_notes[a].start <= ClockAfter(Len(tokens))

\* three well-formed tokens decoded to two intervals of pitch 60, the second
\* one starting where the first one ends
C15_Witness ==
    /\ pc = "done"
    /\ ForwardTokens
    /\ Len(dec.collected_notes) = 2
    /\ dec.collected_notes[1].pitch = 60
    /\ dec.collected_notes[2].pitch = 60
    /\ dec.collected_notes[1].start + dec.collected_notes[1].dur
          = dec.collected_notes[2].start

(***************************************************************************)
(* Transposition of the encoder's input (Spec).                            *)
(***************************************************************************)
\* transpositions tried on every event list, next to the one of the run
Shifts == {-60, -1, 1}

\* every pitch of every event stays in 0..127 when shifted by k
AllInRange(evs, k) ==
    \A e \in 1..Len(evs) : \A n \in 1..Len(evs[e].pitches) :
        InMidiRange(evs[e].pitches[n] + k)

ShiftPitches(pitches, k) == [n \in 1..Len(pitches) |-> pitches[n] + k]

\* a token list with every ON and OFF pitch shifted by k, DUR kept
ShiftTokens(toks, k) ==
    [j \in 1..Len(toks) |->
        [toks[j] EXCEPT !.on = ShiftPitches(@, k), !.off = ShiftPitches(@, k)]]

\* C16: for a transposition k that keeps every pitch of the event list in
\* 0..127, the tokens of the list transposed by k are the tokens of the list
\* untransposed with every ON and OFF pitch shifted by k: the same number of
\* tokens and the same DUR values.
C16_TranspositionEquivariance ==
    (pc = "decode" /\ dec.i = 1) =>
        /\ tokens = generate_tokens_from_events(raw_events, transpose_semitones)
        /\ \A k \in Shifts \cup {transpose_semitones} :
              AllInRange(raw_events, k) =>
                  generate_tokens_from_events(raw_events, k)
                     = ShiftTokens(generate_tokens_from_events(raw_events, 0), k)

\* a run transposed by one semitone with every pitch in range returned at least
\* three tokens, the first with ON=61 and a later one with OFF=61
C16_Witness ==
    /\ pc = "decode"
    /\ dec.i = 1
    /\ transpose_semitones = 1
    /\ AllInRange(raw_events, 1)
    /\ Len(tokens) >= 3
    /\ tokens[1].on = <<61>>
    /\ \E j \in 1..Len(tokens) : tokens[j].off = <<61>>

(***************************************************************************)
(* The active-voice counter of the sweep (Spec).                           *)
(***************************************************************************)
\* C17: when the sweep has finished a time point t, the counter of every pitch
\* is the number of valid instances of the pitch with offset <= t < offset +
\* duration; so it is not negative there, and it is zero for every pitch after
\* the last time point.
C17_VoiceCounter ==
    (enc.i > 1) =>
        \A q \in MIDI_MIN..MIDI_MAX :
            /\ CountOf(enc.note_state, q) = Sounding(q, CurrentTime)
            /\ CountOf(enc.note_state, q) >= 0
            /\ enc.i > Len(enc.all_times) => CountOf(enc.note_state, q) = 0

\* in the middle of the sweep two instances of a pitch that started at
\* different time points sound together
C17_Witness ==
    /\ pc = "encode"
    /\ enc.i > 1
    /\ enc.i <= Len(enc.all_times)
    /\ \E q \in MIDI_MIN..MIDI_MAX :
          /\ CountOf(enc.note_state, q) = 2
          /\ \E x, y \in ValidInstances :
                /\ PitchOf(x) = q
                /\ PitchOf(y) = q
                /\ raw_events[x[1]].offset < raw_events[y[1]].offset

====
